---- MODULE Spec2Model ----
(***************************************************************************)
(* A model of renderCubeFile: the cube file reader (src/src/cubeFile.py),  *)
(* the input file reader (src/src/inputFile.py) and the pipeline that      *)
(* drives them (src/renderCubeFile.py).                                    *)
(*                                                                         *)
(* Floating-point numbers are represented by integers: a token "1.0E-03"   *)
(* is a token whose value is some integer v, and float() of it is v.       *)
(* Strings that the code slices or truncates (element symbols) are         *)
(* sequences of one-character strings.                                     *)
(***************************************************************************)
EXTENDS Integers, Sequences, FiniteSets, TLC

----------------------------------------------------------------------------
(* Bounds of the model *)

\* voxel counts of the header lines range over -MaxCount..MaxCount
MaxCount == 2
\* the header announces 0..MaxAtoms atoms, the file holds 0..MaxAtoms atom lines
MaxAtoms == 2
\* payloads whose tokens are of arbitrary kinds have at most MaxTokens tokens
MaxTokens == 3
\* the largest molecule
MaxMolecule == 3
\* the largest number of smoothing rounds an input file asks for
MaxIterations == 2

----------------------------------------------------------------------------
(* Values *)

Unset == "unset"
NoExc == "none"

\* Python's abs() on integers
Abs(n) == IF n < 0 THEN 0 - n ELSE n

RECURSIVE Flatten(_)
\* the tokens of a sequence of lines, in reading order
Flatten(ls) == IF ls = <<>> THEN <<>> ELSE Head(ls) \o Flatten(Tail(ls))

(* A token of the file, by what the code can observe of it: whether int()  *)
(* and float() accept it, whether it contains "E" and "e", and its value.  *)
IntTok(v)   == [int |-> TRUE,  float |-> TRUE,  E |-> FALSE, e |-> FALSE, val |-> v]
FloatTok(v) == [int |-> FALSE, float |-> TRUE,  E |-> FALSE, e |-> FALSE, val |-> v]
UpperTok(v) == [int |-> FALSE, float |-> TRUE,  E |-> TRUE,  e |-> FALSE, val |-> v]
LowerTok(v) == [int |-> FALSE, float |-> TRUE,  E |-> FALSE, e |-> TRUE,  val |-> v]
\* "0.806033-100": the exponent marker is missing, float() rejects it
UnderTok    == [int |-> FALSE, float |-> FALSE, E |-> FALSE, e |-> FALSE, val |-> 0]
\* "1.0Ex": contains "E" but float() rejects it
BadETok     == [int |-> FALSE, float |-> FALSE, E |-> TRUE,  e |-> FALSE, val |-> 0]

----------------------------------------------------------------------------
(* CubeFile.elementNumToString *)

elementSymbols ==
    <<
       <<"u","d","f">>, <<"H">>, <<"H","e">>, <<"L","i">>, <<"B","e">>, <<"B">>,
       <<"C">>, <<"N">>, <<"O">>, <<"F">>, <<"N","e">>, <<"N","a">>,
       <<"M","g">>, <<"A","l">>, <<"S","i">>, <<"P">>, <<"S">>, <<"C","l">>,
       <<"A","r">>, <<"K">>, <<"C","a">>, <<"S","c">>, <<"T","i">>, <<"V">>,
       <<"C","r">>, <<"M","n">>, <<"F","e">>, <<"C","o">>, <<"N","i">>, <<"C","u">>,
       <<"Z","n">>, <<"G","a">>, <<"G","e">>, <<"A","s">>, <<"S","e">>, <<"B","r">>,
       <<"K","r">>, <<"R","b">>, <<"S","r">>, <<"Y">>, <<"Z","r">>, <<"N","b">>,
       <<"M","o">>, <<"T","c">>, <<"R","u">>, <<"R","h">>, <<"P","d">>, <<"A","g">>,
       <<"C","d">>, <<"I","n">>, <<"S","n">>, <<"S","b">>, <<"T","e">>, <<"I">>,
       <<"X","e">>, <<"C","s">>, <<"B","a">>, <<"L","a">>, <<"C","e">>, <<"P","r">>,
       <<"N","d">>, <<"P","m">>, <<"S","m">>, <<"E","u">>, <<"G","d">>, <<"T","b">>,
       <<"D","y">>, <<"H","o">>, <<"E","r">>, <<"T","m">>, <<"Y","b">>, <<"L","u">>,
       <<"H","f">>, <<"T","a">>, <<"W">>, <<"R","e">>, <<"O","s">>, <<"I","r">>,
       <<"P","t">>, <<"A","u">>, <<"H","g">>, <<"T","l">>, <<"P","b">>, <<"B","i">>,
       <<"P","o">>, <<"A","t">>, <<"R","n">>, <<"F","r">>, <<"R","a">>, <<"A","c">>,
       <<"T","h">>, <<"P","a">>, <<"U">>, <<"N","p">>, <<"P","u">>, <<"A","m">>,
       <<"C","m">>
    >>

elementNumToString == [n \in 0..96 |-> elementSymbols[n + 1]]

\* assignment of a string to an element of np.empty(n, str), whose dtype is
\* '<U1': numpy keeps the first character only
StoreU1(s) == IF Len(s) > 1 THEN SubSeq(s, 1, 1) ELSE s

----------------------------------------------------------------------------
(* CubeFile._readHeaderLineShort, CubeFile._readHeaderLineLong *)

\* file.readline().split(): at the end of the file readline() returns ''
readline(f, pos) == IF pos <= Len(f) THEN f[pos] ELSE <<>>

_readHeaderLineShort(f, pos) ==
    LET lineSplit == readline(f, pos) IN
    IF Len(lineSplit) = 0
      THEN [exc |-> "IndexError", leadingInt |-> Unset, listOfFloats |-> Unset]
    ELSE IF ~lineSplit[1].int
      THEN [exc |-> "ValueError", leadingInt |-> Unset, listOfFloats |-> Unset]
    ELSE IF \E i \in 2..Len(lineSplit) : ~lineSplit[i].float
      THEN [exc |-> "ValueError", leadingInt |-> Unset, listOfFloats |-> Unset]
    ELSE [exc |-> NoExc,
          leadingInt |-> lineSplit[1].val,
          listOfFloats |-> [i \in 1..(Len(lineSplit) - 1) |-> lineSplit[i + 1].val]]

_readHeaderLineLong(f, pos) ==
    LET short == _readHeaderLineShort(f, pos) IN
    IF short.exc # NoExc
      THEN [exc |-> short.exc, leadingInt |-> Unset, firstFloat |-> Unset,
            listOfFloats |-> Unset]
    ELSE IF Len(short.listOfFloats) = 0
      THEN [exc |-> "IndexError", leadingInt |-> Unset, firstFloat |-> Unset,
            listOfFloats |-> Unset]
    ELSE [exc |-> NoExc,
          leadingInt |-> short.leadingInt,
          firstFloat |-> short.listOfFloats[1],
          listOfFloats |-> Tail(short.listOfFloats)]

----------------------------------------------------------------------------
(* CubeFile._readCubeFile *)

\* the content of an array element that np.empty() leaves uninitialised
Uninit == "uninit"

\* the attributes of a CubeFile object; attrs holds the names of those that
\* have been assigned, cubeFile is the state of the handle
NewCubeFile ==
    [attrs |-> {},
     cubeFile |-> Unset,
     numberOfAtoms |-> Unset, origin |-> Unset,
     numberOfVoxelsX |-> Unset, voxelVectorX |-> Unset,
     numberOfVoxelsY |-> Unset, voxelVectorY |-> Unset,
     numberOfVoxelsZ |-> Unset, voxelVectorZ |-> Unset,
     nameOfAtoms |-> Unset, chargeOfAtoms |-> Unset, coordinatesOfAtoms |-> Unset,
     unit |-> Unset,
     voxelSizeX |-> Unset, voxelSizeY |-> Unset, voxelSizeZ |-> Unset,
     simulationBoxSize |-> Unset,
     data |-> Unset]

\* self.name = value
SetAttr(self, name, value) ==
    [self EXCEPT ![name] = value, !["attrs"] = @ \cup {name}]

HasAttr(self, name) == name \in self.attrs

\* the file starts with two comment lines; the header is lines 3..6
HeaderStart == 3
AtomStart == 7

(* A run of _readCubeFile: the object as assigned so far, the exception    *)
(* that ended the run, and the number of conversion errors logged.         *)
Running(self) == [self |-> self, exc |-> NoExc, logged |-> 0]
Raise(s, e) == [s EXCEPT !.exc = e]

\* self.<count>, self.<vector> = self._readHeaderLineShort(f), for the
\* header line at offset d
ReadHeaderLine(s, f, d, count, vector) ==
    LET l == _readHeaderLineShort(f, HeaderStart + d) IN
    IF l.exc # NoExc THEN Raise(s, l.exc)
    ELSE [s EXCEPT !.self = SetAttr(SetAttr(@, count, l.leadingInt),
                                    vector, l.listOfFloats)]

\* the three np.empty calls; a negative length is a ValueError
AllocateAtoms(s) ==
    IF s.self.numberOfAtoms < 0 THEN Raise(s, "ValueError")
    ELSE [s EXCEPT !.self = SetAttr(SetAttr(SetAttr(@,
              "nameOfAtoms", [i \in 1..s.self.numberOfAtoms |-> <<Uninit>>]),
              "chargeOfAtoms", [i \in 1..s.self.numberOfAtoms |-> Uninit]),
              "coordinatesOfAtoms", [i \in 1..s.self.numberOfAtoms |-> <<Uninit>>])]

\* coordinatesOfAtoms[i] = np.array([coordinates]): a row of shape (1, k) is
\* broadcast into a row of 3 when k is 3 or 1
BroadcastRow(coordinates) ==
    IF Len(coordinates) = 3 THEN coordinates
    ELSE <<coordinates[1], coordinates[1], coordinates[1]>>

\* the three assignments of iteration i for the atom line l; the third one
\* raises when the row cannot be broadcast
StoreAtom(self, i, l) ==
    [self EXCEPT
        !.nameOfAtoms[i + 1] = StoreU1(elementNumToString[l.leadingInt]),
        !.chargeOfAtoms[i + 1] = l.firstFloat,
        !.coordinatesOfAtoms[i + 1] = IF Len(l.listOfFloats) \in {1, 3}
                                        THEN BroadcastRow(l.listOfFloats) ELSE @]

RECURSIVE ReadAtoms(_, _, _)
\* the loop over the atom lines, from iteration i (0-based) on
ReadAtoms(s, f, i) ==
    IF i >= s.self.numberOfAtoms THEN s
    ELSE
      LET l == _readHeaderLineLong(f, AtomStart + i) IN
      IF l.exc # NoExc THEN Raise(s, l.exc)
      ELSE IF l.leadingInt \notin DOMAIN elementNumToString THEN Raise(s, "KeyError")
      ELSE IF Len(l.listOfFloats) \notin {1, 3}
        THEN Raise([s EXCEPT !.self = StoreAtom(@, i, l)], "ValueError")
      ELSE ReadAtoms([s EXCEPT !.self = StoreAtom(@, i, l)], f, i + 1)

\* "Determine the units of the cube file from file header"
ResolveUnit(self) ==
    IF \/ self.numberOfVoxelsX < 0
       \/ self.numberOfVoxelsX < 0
       \/ self.numberOfVoxelsX < 0
      THEN [SetAttr(self, "unit", "Angstrom") EXCEPT
                        !.numberOfVoxelsX = Abs(self.numberOfVoxelsX),
                        !.numberOfVoxelsY = Abs(self.numberOfVoxelsY),
                        !.numberOfVoxelsZ = Abs(self.numberOfVoxelsZ)]
      ELSE SetAttr(self, "unit", "Bohr")

\* self.<size> = self.<vector>[d - 1]
ReadVoxelSize(s, size, vector, d) ==
    IF Len(s.self[vector]) < d THEN Raise(s, "IndexError")
    ELSE [s EXCEPT !.self = SetAttr(@, size, s.self[vector][d])]

\* "Determine simulation box size from file header"
ReadBoxSize(self) ==
    SetAttr(self, "simulationBoxSize",
            << (self.numberOfVoxelsX - 1) * self.voxelSizeX,
               (self.numberOfVoxelsY - 1) * self.voxelSizeY,
               (self.numberOfVoxelsZ - 1) * self.voxelSizeZ >>)

\* self.data = np.zeros(...); a negative length is a ValueError
AllocateData(s) ==
    LET size == s.self.numberOfVoxelsX * s.self.numberOfVoxelsY
                  * s.self.numberOfVoxelsZ
    IN  IF size < 0 THEN Raise(s, "ValueError")
        ELSE [s EXCEPT !.self = SetAttr(@, "data", [k \in 0..(size - 1) |-> 0])]

\* has the token an exponent marker, as the code tests it
HasMarker(value) == value.E

RECURSIVE ReadData(_, _, _)
\* the loop over the payload tokens, from token idx (0-based) on
ReadData(s, tokens, idx) ==
    IF idx >= Len(tokens) THEN s
    ELSE IF HasMarker(tokens[idx + 1]) /\ ~tokens[idx + 1].float
      \* float(value) raises ValueError, which is logged; the loop goes on
      THEN ReadData([s EXCEPT !.logged = @ + 1], tokens, idx + 1)
    ELSE IF idx \notin DOMAIN s.self.data THEN Raise(s, "IndexError")
    ELSE ReadData([s EXCEPT !.self.data[idx] =
                      \* without a marker: value = 0
                      IF HasMarker(tokens[idx + 1]) THEN tokens[idx + 1].val ELSE 0],
                  tokens, idx + 1)

\* a layout with Y as the fastest axis
FlatIndexYInner(i, j, k, ny, nz) == i * ny * nz + k * ny + j

\* the position of element <<i, j, k>> of a C-ordered array of shape
\* (nx, ny, nz) in its flat buffer
FlatIndex(i, j, k, ny, nz) == i * ny * nz + j * nz + k

\* the length numpy gives an axis of requested length n: a negative
\* request stands for the one length that is inferred
AxisLength(n, inferred) == IF n < 0 THEN inferred ELSE n

\* the array of shape (dx, dy, dz) over the flat buffer data
Shaped(data, dx, dy, dz) ==
    [ix \in (0..(dx - 1)) \X (0..(dy - 1)) \X (0..(dz - 1)) |->
        data[FlatIndex(ix[1], ix[2], ix[3], dy, dz)]]

\* np.reshape(data, (nx, ny, nz)); exc is the exception it raises
Reshape(data, nx, ny, nz) ==
    LET size == Cardinality(DOMAIN data)
        negative == Cardinality({d \in {1, 2, 3} : <<nx, ny, nz>>[d] < 0})
        known == AxisLength(nx, 1) * AxisLength(ny, 1) * AxisLength(nz, 1)
    IN  IF negative > 1 THEN [data |-> data, exc |-> "ValueError"]
        ELSE IF negative = 1 /\ (known = 0 \/ size % known # 0)
          THEN [data |-> data, exc |-> "ValueError"]
        ELSE IF negative = 0 /\ known # size
          THEN [data |-> data, exc |-> "ValueError"]
        ELSE [data |-> Shaped(data, AxisLength(nx, size \div known),
                              AxisLength(ny, size \div known),
                              AxisLength(nz, size \div known)),
              exc |-> NoExc]

\* self.data = np.reshape(self.data, ...)
ReshapeData(s) ==
    LET r == Reshape(s.self.data, s.self.numberOfVoxelsX, s.self.numberOfVoxelsY,
                     s.self.numberOfVoxelsZ)
    IN  IF r.exc # NoExc THEN Raise(s, r.exc)
        ELSE [s EXCEPT !.self.data = r.data]

\* the tokens of the lines that follow the atom lines
Payload(self, f) ==
    Flatten(SubSeq(f, AtomStart + self.numberOfAtoms, Len(f)))

\* the statements of _readCubeFile, in order
LastStatement == 14
Statement(s, f, k) ==
    CASE k = 1 -> ReadHeaderLine(s, f, 0, "numberOfAtoms", "origin")
      [] k = 2 -> ReadHeaderLine(s, f, 1, "numberOfVoxelsX", "voxelVectorX")
      [] k = 3 -> ReadHeaderLine(s, f, 2, "numberOfVoxelsY", "voxelVectorY")
      [] k = 4 -> ReadHeaderLine(s, f, 3, "numberOfVoxelsZ", "voxelVectorZ")
      [] k = 5 -> AllocateAtoms(s)
      [] k = 6 -> ReadAtoms(s, f, 0)
      [] k = 7 -> [s EXCEPT !.self = ResolveUnit(@)]
      [] k = 8 -> ReadVoxelSize(s, "voxelSizeX", "voxelVectorX", 1)
      [] k = 9 -> ReadVoxelSize(s, "voxelSizeY", "voxelVectorY", 2)
      [] k = 10 -> ReadVoxelSize(s, "voxelSizeZ", "voxelVectorZ", 3)
      [] k = 11 -> [s EXCEPT !.self = ReadBoxSize(@)]
      [] k = 12 -> AllocateData(s)
      [] k = 13 -> ReadData(s, Payload(s.self, f), 0)
      [] k = 14 -> ReshapeData(s)

RECURSIVE RunFrom(_, _, _)
\* the run from statement k on; an exception ends it
RunFrom(s, f, k) ==
    IF s.exc # NoExc \/ k > LastStatement THEN s
    ELSE RunFrom(Statement(s, f, k), f, k + 1)

_readCubeFile(self, f) == RunFrom(Running(self), f, 1)

----------------------------------------------------------------------------
(* CubeFile.createMesh and what it calls *)

\* verts[:, d] = verts[:, d] - abs(self.origin[d])
_translateVerteciesToCenterOfSimulationBox(self, verts) ==
    [v \in 1..Len(verts) |->
        << verts[v][1] - Abs(self.origin[1]),
           verts[v][2] - Abs(self.origin[2]),
           verts[v][3] - Abs(self.origin[3]) >>]

\* can measure.marching_cubes succeed at all: the object has its data, the
\* volume is at least 2x2x2 and the level lies within the range of the data
MarchingCubesDefined(self, isosurfaceValue) ==
    /\ HasAttr(self, "data")
    /\ HasAttr(self, "voxelSizeX") /\ HasAttr(self, "voxelSizeY")
    /\ HasAttr(self, "voxelSizeZ")
    /\ self.numberOfVoxelsX >= 2 /\ self.numberOfVoxelsY >= 2
    /\ self.numberOfVoxelsZ >= 2
    /\ \E ix \in DOMAIN self.data : self.data[ix] <= isosurfaceValue
    /\ \E ix \in DOMAIN self.data : self.data[ix] >= isosurfaceValue

\* an except clause that does not return: the translation then runs on the
\* list [] and fails
_calculateIsosurfacesNoReturn(self, mc) ==
    IF mc.raises
      THEN [verts |-> <<>>, faces |-> <<>>, exc |-> "TypeError", logged |-> TRUE]
    ELSE IF Len(self.origin) < 3
      THEN [verts |-> <<>>, faces |-> <<>>, exc |-> "IndexError", logged |-> FALSE]
    ELSE [verts |-> _translateVerteciesToCenterOfSimulationBox(self, mc.verts),
          faces |-> mc.faces, exc |-> NoExc, logged |-> FALSE]

\* mc is what measure.marching_cubes does: it raises, or returns a surface
_calculateIsosurfaces(self, mc) ==
    IF mc.raises
      THEN [verts |-> <<>>, faces |-> <<>>, exc |-> NoExc, logged |-> TRUE]
    ELSE IF Len(self.origin) < 3
      THEN [verts |-> <<>>, faces |-> <<>>, exc |-> "IndexError", logged |-> FALSE]
    ELSE [verts |-> _translateVerteciesToCenterOfSimulationBox(self, mc.verts),
          faces |-> mc.faces, exc |-> NoExc, logged |-> FALSE]

\* open3d.geometry.TriangleMesh()
NoMesh == [vertices |-> <<>>, triangles |-> <<>>]

\* the vertices that share a triangle with vertex v (numbered from 0)
AdjacentVertices(v, triangles) ==
    {u \in UNION {{t[1], t[2], t[3]} : t \in {triangles[k] : k \in DOMAIN triangles}} :
        /\ u # v
        /\ \E k \in DOMAIN triangles : {u, v} \subseteq {triangles[k][1],
                                                        triangles[k][2],
                                                        triangles[k][3]}}

RECURSIVE SumOfCoordinate(_, _, _)
SumOfCoordinate(S, vertices, d) ==
    IF S = {} THEN 0
    ELSE LET u == CHOOSE x \in S : TRUE
         IN  vertices[u + 1][d] + SumOfCoordinate(S \ {u}, vertices, d)

\* one round of filter_smooth_simple: every vertex becomes the mean of
\* itself and the vertices adjacent to it
SmoothOnce(vertices, triangles) ==
    [v \in DOMAIN vertices |->
        [d \in 1..3 |->
            SumOfCoordinate(AdjacentVertices(v - 1, triangles) \cup {v - 1},
                            vertices, d)
              \div (Cardinality(AdjacentVertices(v - 1, triangles)) + 1)]]

RECURSIVE filter_smooth_simple(_, _)
\* the mesh filter_smooth_simple returns: a new mesh with the vertices
\* smoothed number_of_iterations times and the same triangles
filter_smooth_simple(m, number_of_iterations) ==
    IF number_of_iterations <= 0 THEN m
    ELSE filter_smooth_simple([m EXCEPT !.vertices = SmoothOnce(m.vertices, m.triangles)],
                              number_of_iterations - 1)

\* the mesh after a filter that runs one round more than asked
_createMeshFromVerticesAndFacesOneMore(verts, faces, filterIterations, o3d) ==
    LET m0 == NoMesh
        m1 == [m0 EXCEPT !.vertices = verts]
        m2 == [m1 EXCEPT !.triangles = faces]
    IN  IF o3d = "vertices" THEN [mesh |-> m0, logged |-> TRUE]
        ELSE IF o3d = "triangles" THEN [mesh |-> m1, logged |-> TRUE]
        ELSE IF o3d = "filter" THEN [mesh |-> m2, logged |-> TRUE]
        ELSE [mesh |-> filter_smooth_simple(m2, filterIterations + 1),
              logged |-> FALSE]

\* o3d is the open3d call that raises, if any; filter_smooth_simple returns
\* the smoothed mesh as a new object, which the code drops
_createMeshFromVerticesAndFaces(verts, faces, filterIterations, o3d) ==
    LET m0 == NoMesh
        m1 == [m0 EXCEPT !.vertices = verts]
        m2 == [m1 EXCEPT !.triangles = faces]
        smoothed == filter_smooth_simple(m2, filterIterations)
    IN  IF o3d = "vertices" THEN [mesh |-> m0, logged |-> TRUE]
        ELSE IF o3d = "triangles" THEN [mesh |-> m1, logged |-> TRUE]
        ELSE IF o3d = "filter" THEN [mesh |-> m2, logged |-> TRUE]
        ELSE [mesh |-> m2, logged |-> FALSE]

createMesh(self, isosurfaceValue, filterIterations, mc, o3d) ==
    LET iso == _calculateIsosurfaces(self, mc)
        made == _createMeshFromVerticesAndFaces(iso.verts, iso.faces,
                                                filterIterations, o3d)
    IN  IF iso.exc # NoExc
          THEN [mesh |-> NoMesh, exc |-> iso.exc,
                logged |-> IF iso.logged THEN {"isosurface"} ELSE {}]
          ELSE [mesh |-> made.mesh, exc |-> NoExc,
                logged |-> (IF iso.logged THEN {"isosurface"} ELSE {})
                             \cup (IF made.logged THEN {"mesh"} ELSE {})]

----------------------------------------------------------------------------
(* RenderCubeFile._drawAtomsAndBonds._calculateBonds *)

\* a test that finds the bond only as it was added
bondInListOneDirection(bonds, i, j) ==
    \E listedBond \in bonds : listedBond[1] = i /\ listedBond[2] = j

\* the loop over the bonds listed so far: is the bond of i and j among them,
\* in either direction
bondInList(bonds, i, j) ==
    \E listedBond \in bonds :
        \/ listedBond[1] = i /\ listedBond[2] = j
        \/ listedBond[1] = j /\ listedBond[2] = i

RECURSIVE AddBonds(_, _, _)
\* the inner loop over the neighbours js of atom i, in the order the set
\* bondsDict[i] is iterated
AddBonds(bonds, i, js) ==
    IF js = <<>> THEN bonds
    ELSE AddBonds(IF bondInList(bonds, i, Head(js))
                    THEN bonds ELSE bonds \cup {<<i, Head(js)>>},
                  i, Tail(js))

RECURSIVE _calculateBondsFrom(_, _, _)
\* the outer loop from atom i on; order[i] is the iteration order of
\* bondsDict[i]
_calculateBondsFrom(bonds, i, order) ==
    IF i >= Len(order) THEN bonds
    ELSE _calculateBondsFrom(AddBonds(bonds, i, order[i + 1]), i + 1, order)

_calculateBonds(order) == _calculateBondsFrom({}, 0, order)

----------------------------------------------------------------------------
(* The cube files of the model *)

Comment == <<>>
OriginLine(n) == <<IntTok(n), FloatTok(-4), FloatTok(-4), FloatTok(-4)>>
\* the header line of axis d (1, 2, 3) with a voxel vector along that axis
VoxelLine(n, d) ==
    <<IntTok(n)>> \o [i \in 1..3 |-> FloatTok(IF i = d THEN 1 ELSE 0)]
\* an atom line: atomic number, charge, three coordinates
AtomLine(z) == <<IntTok(z), FloatTok(0), FloatTok(z), FloatTok(0), FloatTok(1)>>
\* a payload of n well-formed tokens with the values 1, 2, ..., n
GoodPayload(n) == [k \in 1..n |-> UpperTok(k)]

\* a line and the ways it can be malformed: cut short, a leading token that
\* is no integer, a field that is no number
Variants(l) ==
    {l} \cup {SubSeq(l, 1, k) : k \in 0..(Len(l) - 1)}
        \cup {[l EXCEPT ![1] = FloatTok(l[1].val)], [l EXCEPT ![2] = UnderTok]}

\* a file on disk: whether it can be opened and read, and its lines
CubeFileOf(origin, vx, vy, vz, atoms, payload) ==
    [state |-> "readable",
     lines |-> <<Comment, Comment, origin, vx, vy, vz>> \o atoms \o <<payload>>]

Counts == (0 - MaxCount)..MaxCount

\* well-formed headers with every combination of voxel counts
HeaderFiles ==
    {CubeFileOf(OriginLine(0), VoxelLine(nx, 1), VoxelLine(ny, 2), VoxelLine(nz, 3),
                <<>>, GoodPayload(n)) :
        nx \in Counts, ny \in Counts, nz \in Counts,
        n \in 0..(MaxCount * MaxCount * MaxCount + 1)}

\* headers whose lines are malformed
MalformedHeaderFiles ==
    {CubeFileOf(o, vx, vy, vz, <<>>, GoodPayload(1)) :
        o \in Variants(OriginLine(0)), vx \in Variants(VoxelLine(1, 1)),
        vy \in Variants(VoxelLine(1, 2)), vz \in Variants(VoxelLine(1, 3))}

\* atomic numbers of the model: one-, two- and three-character symbols, the
\* ends of the table and numbers outside it
AtomNumbers == {-1, 0, 1, 2, 96, 97}
AtomLines ==
    {AtomLine(z) : z \in AtomNumbers}
      \cup {SubSeq(AtomLine(8), 1, k) : k \in 1..4}
      \cup {[AtomLine(8) EXCEPT ![1] = FloatTok(8)]}

SeqsUpTo(S, n) == UNION {[1..m -> S] : m \in 0..n}

AtomFiles ==
    {CubeFileOf(OriginLine(n), VoxelLine(1, 1), VoxelLine(1, 2), VoxelLine(1, 3),
                atoms, GoodPayload(1)) :
        n \in (-1)..MaxAtoms, atoms \in SeqsUpTo(AtomLines, MaxAtoms)}

\* the kinds of payload token, with value v where the token has one
PayloadTokens(v) ==
    {UpperTok(v), LowerTok(v), FloatTok(v), IntTok(v), UnderTok, BadETok}

PayloadFiles ==
    {CubeFileOf(OriginLine(0), VoxelLine(1, 1), VoxelLine(1, 2), VoxelLine(2, 3),
                <<>>, payload) :
        payload \in {p \in SeqsUpTo(PayloadTokens(1) \cup PayloadTokens(2), MaxTokens) :
                        \A k \in 1..Len(p) : p[k] \in PayloadTokens(1 + (k % 2))}}

\* a path that cannot be opened, and a file whose read fails
Missing == [state |-> "missing", lines |-> <<>>]
Unreadable == [state |-> "unreadable", lines |-> <<>>]

\* molecules of up to MaxMolecule atoms, every line well formed
Molecule(n) == [k \in 1..n |-> AtomLine(IF k = 1 THEN 8 ELSE 1)]
MoleculeFiles ==
    {CubeFileOf(OriginLine(n), VoxelLine(1, 1), VoxelLine(1, 2), VoxelLine(1, 3),
                Molecule(n), GoodPayload(1)) : n \in 0..MaxMolecule}

\* a field of 2 x 2 x 2 values with one atom
SampleCubeFile ==
    CubeFileOf(OriginLine(1), VoxelLine(2, 1), VoxelLine(2, 2), VoxelLine(2, 3),
               Molecule(1), GoodPayload(8))

CubeFiles ==
    HeaderFiles \cup MalformedHeaderFiles \cup AtomFiles \cup PayloadFiles
      \cup MoleculeFiles

----------------------------------------------------------------------------
(* InputFile: the input file, its JSON values and their validation *)

\* a value json.load returns, with the Python type it has; floats in units
\* of 0.001
JInt(n) == [type |-> "int", num |-> n, str |-> "", bool |-> FALSE]
JFloat(x) == [type |-> "float", num |-> x, str |-> "", bool |-> FALSE]
JBool(b) == [type |-> "bool", num |-> 0, str |-> "", bool |-> b]
JStr(s) == [type |-> "str", num |-> 0, str |-> s, bool |-> FALSE]
JNull == [type |-> "NoneType", num |-> 0, str |-> "", bool |-> FALSE]

defaultValues ==
    [filterIterations |-> JInt(1),
     isosurfaceValue |-> JFloat(1),
     deleteOBJFile |-> JBool(TRUE),
     pathToOBJFile |-> JStr("/tmp/tmp.obj"),
     focalLenght |-> JInt(25),
     cameraLocation |-> JStr("-y"),
     imagePath |-> JStr("./cubeFileRender.png")]

\* the order in which defaultValues.keys() is iterated
defaultKeys ==
    <<"filterIterations", "isosurfaceValue", "deleteOBJFile", "pathToOBJFile",
      "focalLenght", "cameraLocation", "imagePath">>

\* the directories that exist; no file exists at any path of the model
ExistingPaths == {".", "/tmp"}
os_path_exists(path) == path \in ExistingPaths

\* os.path.dirname: the text before the last "/", empty when there is none
os_path_dirname(path) ==
    CASE path = "/tmp/tmp.obj" -> "/tmp"
      [] path = "./cubeFileRender.png" -> "."
      [] path = "./out" -> "."
      [] path = "/nodir/out" -> "/nodir"
      [] path = "/tmp" -> "/"
      [] OTHER -> ""

\* a validator that looks at the path alone
_validatePathOnly(path) ==
    IF ~os_path_exists(path) THEN "OSError" ELSE NoExc

\* the exception _validatePath leaves with
_validatePath(path) ==
    IF ~os_path_exists(path)
      THEN IF ~os_path_exists(os_path_dirname(path)) THEN "OSError" ELSE NoExc
      ELSE NoExc

Accepted == [exc |-> NoExc, logged |-> ""]
Rejected(e, message) == [exc |-> e, logged |-> message]

\* a count validated with isinstance, which a bool passes
ValidateCountIsInstance(value, typeMessage, rangeMessage) ==
    IF value.type \notin {"int", "bool"} THEN Rejected("ValueError", typeMessage)
    ELSE IF value.num < 0 THEN Rejected("ValueError", rangeMessage)
    ELSE Accepted

\* the branch of _validateData for an integer keyword that must not be
\* negative
ValidateCount(value, typeMessage, rangeMessage) ==
    IF value.type # "int" THEN Rejected("ValueError", typeMessage)
    ELSE IF value.num < 0 THEN Rejected("ValueError", rangeMessage)
    ELSE Accepted

\* a type check that takes every number
ValidateTypeNumber(value, type, typeMessage) ==
    IF value.type \notin {type, "int"} THEN Rejected("ValueError", typeMessage)
    ELSE Accepted

\* the branch of _validateData for a keyword of one type
ValidateType(value, type, typeMessage) ==
    IF value.type # type THEN Rejected("ValueError", typeMessage) ELSE Accepted

\* the branch of _validateData for a path
ValidatePathEntry(value, typeMessage, pathMessage) ==
    IF value.type # "str" THEN Rejected("ValueError", typeMessage)
    ELSE IF _validatePath(value.str) # NoExc
      THEN Rejected(_validatePath(value.str), pathMessage)
    ELSE Accepted

CameraLocations == {"-x", "+x", "-y", "+y", "-z", "+z"}

\* a camera check of the type alone
ValidateCameraType(value) ==
    IF value.type # "str" THEN Rejected("ValueError", "type: cameraLocation")
    ELSE Accepted

\* the branch of _validateData for cameraLocation
ValidateCamera(value) ==
    IF value.type # "str" THEN Rejected("ValueError", "type: cameraLocation")
    ELSE IF value.str \notin CameraLocations
      THEN Rejected("ValueError", "value: cameraLocation")
    ELSE Accepted

\* the elif chain of _validateData for a keyword the data holds
ValidateEntry(key, value) ==
    CASE key = "filterIterations" ->
           ValidateCount(value, "type: filterIterations", "range: filterIterations")
      [] key = "isosurfaceValue" ->
           ValidateType(value, "float", "type: isosurfaceValue")
      [] key = "deleteOBJFile" ->
           ValidateType(value, "bool", "type: deleteOBJFile")
      [] key = "pathToOBJFile" ->
           ValidatePathEntry(value, "type: pathToOBJFile", "path: pathToOBJFile")
      [] key = "focalLenght" ->
           ValidateCount(value, "type: focalLenght", "range: focalLenght")
      [] key = "cameraLocation" -> ValidateCamera(value)
      [] key = "imagePath" ->
           ValidatePathEntry(value, "type: imagePath", "path: imagePath")

\* data[key] = value
SetItem(data, key, value) ==
    [k \in DOMAIN data \cup {key} |-> IF k = key THEN value ELSE data[k]]

RECURSIVE _validateDataFrom(_, _)
\* the loop of _validateData from the k-th keyword on; data is the
\* dictionary the loop fills in
_validateDataFrom(data, k) ==
    IF k > Len(defaultKeys) THEN [data |-> data, exc |-> NoExc, logged |-> ""]
    ELSE IF defaultKeys[k] \notin DOMAIN data
      THEN _validateDataFrom(
               SetItem(data, defaultKeys[k], defaultValues[defaultKeys[k]]), k + 1)
    ELSE IF ValidateEntry(defaultKeys[k], data[defaultKeys[k]]).exc # NoExc
      THEN [data |-> data,
            exc |-> ValidateEntry(defaultKeys[k], data[defaultKeys[k]]).exc,
            logged |-> ValidateEntry(defaultKeys[k], data[defaultKeys[k]]).logged]
    ELSE _validateDataFrom(data, k + 1)

_validateData(data) == _validateDataFrom(data, 1)

\* a reader that copies every keyword of the file
_getDataFromInputFileAllKeys(f) ==
    IF f.state = "missing"
      THEN [data |-> f.content, exc |-> "IOError", logged |-> "open"]
    ELSE IF f.state = "invalid"
      THEN [data |-> f.content, exc |-> "ValueError", logged |-> "json"]
    ELSE IF f.state = "array"
      THEN [data |-> f.content, exc |-> "AttributeError", logged |-> ""]
    ELSE [data |-> f.content, exc |-> NoExc, logged |-> ""]

\* f is the input file: it cannot be opened, it holds no JSON, it holds a
\* JSON array, or it holds the JSON object f.content
_getDataFromInputFile(f) ==
    IF f.state = "missing"
      THEN [data |-> f.content, exc |-> "IOError", logged |-> "open"]
    ELSE IF f.state = "invalid"
      THEN [data |-> f.content, exc |-> "ValueError", logged |-> "json"]
    ELSE IF f.state = "array"
      THEN [data |-> f.content, exc |-> "AttributeError", logged |-> ""]
    ELSE [data |-> [key \in DOMAIN f.content \cap DOMAIN defaultValues |->
                       f.content[key]],
          exc |-> NoExc, logged |-> ""]

readInputFile(f) ==
    IF _getDataFromInputFile(f).exc # NoExc THEN _getDataFromInputFile(f)
    ELSE _validateData(_getDataFromInputFile(f).data)

\* _getInputData: pathToInputFile is '' when f.state is "none"
_getInputData(f) ==
    IF f.state # "none" THEN readInputFile(f)
    ELSE [data |-> defaultValues, exc |-> NoExc, logged |-> ""]

(* RenderCubeFile._createLight, RenderCubeFile._createCamera: the          *)
(* coordinates the if/elif chains assign                                   *)
lightLocationCoordinates ==
    [l \in {"-x", "+x", "-y", "+y", "-z", "+z"} |->
        CASE l = "-x" -> <<-80, 0, 80>>
          [] l = "+x" -> <<80, 0, 80>>
          [] l = "-y" -> <<0, -80, 80>>
          [] l = "+y" -> <<0, 80, 80>>
          [] l = "-z" -> <<0, 80, -80>>
          [] l = "+z" -> <<0, 80, 80>>]

cameraLocationCoordinates ==
    [l \in {"-x", "+x", "-y", "+y", "-z", "+z"} |->
        CASE l = "-x" -> <<-70, 0, 0>>
          [] l = "+x" -> <<70, 0, 0>>
          [] l = "-y" -> <<0, -70, 0>>
          [] l = "+y" -> <<0, 70, 0>>
          [] l = "-z" -> <<0, 0, -70>>
          [] l = "+z" -> <<0, 0, 70>>]

----------------------------------------------------------------------------
(* The input files of the model *)

EmptyDict == [key \in {} |-> JNull]

\* RenderCubeFile is called with pathToInputFile = ''
NoInputFile == [state |-> "none", content |-> EmptyDict]

\* an input file that sets every keyword to a valid value other than the
\* default, and a keyword the program does not know
FullContent ==
    [filterIterations |-> JInt(2),
     isosurfaceValue |-> JFloat(2),
     deleteOBJFile |-> JBool(FALSE),
     pathToOBJFile |-> JStr("./out"),
     focalLenght |-> JInt(140),
     cameraLocation |-> JStr("-z"),
     imagePath |-> JStr("./out"),
     comment |-> JStr("water")]

PathValues ==
    {JStr("/tmp/tmp.obj"), JStr("./out"), JStr("out"), JStr("null"),
     JStr("/nodir/out"), JStr("/tmp"), JInt(1), JNull}

\* the values the input files of the model give a keyword
EntryValues(key) ==
    CASE key \in {"filterIterations", "focalLenght"} ->
           {JInt(n) : n \in (-1)..MaxIterations}
             \cup {JFloat(2), JBool(FALSE), JBool(TRUE), JStr("1"), JNull}
      [] key = "isosurfaceValue" ->
           {JFloat(x) : x \in {-5, 0, 1, 2, 1000000}}
             \cup {JInt(1), JInt(0), JBool(TRUE), JStr("1"), JNull}
      [] key = "deleteOBJFile" ->
           {JBool(TRUE), JBool(FALSE), JInt(1), JStr("true"), JNull}
      [] key \in {"pathToOBJFile", "imagePath"} -> PathValues
      [] key = "cameraLocation" ->
           {JStr(l) : l \in CameraLocations \cup {"x", "-w", ""}}
             \cup {JInt(1), JNull}

JsonObject(content) == [state |-> "object", content |-> content]

\* every choice of the keywords the file holds, and every value of one
\* keyword in a file that holds all of them
InputFiles ==
    {JsonObject([key \in K |-> FullContent[key]]) : K \in SUBSET DOMAIN FullContent}
      \cup {JsonObject(SetItem(FullContent, defaultKeys[k], v)) :
               k \in DOMAIN defaultKeys,
               v \in UNION {EntryValues(defaultKeys[i]) : i \in DOMAIN defaultKeys}}
      \cup {[state |-> st, content |-> EmptyDict] :
               st \in {"missing", "invalid", "array"}}

----------------------------------------------------------------------------
(* CubeFile.__enter__ *)

\* the try block of __enter__; exc is the exception that leaves __enter__,
\* caught the one its except clause handled
__enter__(self, f) ==
    LET opened == SetAttr(self, "cubeFile", "open")
        r == _readCubeFile(opened, f.lines)
    IN  IF f.state = "missing"
          THEN [self |-> self, exc |-> NoExc, caught |-> "IOError", logged |-> 1]
        ELSE IF f.state = "unreadable"
          THEN [self |-> opened, exc |-> NoExc, caught |-> "IOError", logged |-> 1]
        ELSE IF r.exc # NoExc
          THEN [self |-> r.self, exc |-> r.exc, caught |-> NoExc, logged |-> r.logged]
        \* "self.cubeFile.close" names the method and does not call it
        ELSE [self |-> r.self, exc |-> NoExc, caught |-> NoExc, logged |-> r.logged]

----------------------------------------------------------------------------
(* The pipeline of RenderCubeFile.__init__ *)

VARIABLES
    inputFile,   \* the input file on disk, if the call names one
    file,        \* the cube file on disk
    pc,          \* the position of RenderCubeFile.__init__
    inputData,   \* the configuration dictionary
    scene,       \* what has been put into the Blender scene
    c,           \* the CubeFile object
    readExc,     \* the exception that ended the read in __enter__, if any
    marching,    \* what measure.marching_cubes did: Unset, "raise" or "ok"
    isosurface,  \* the vertices and faces _calculateIsosurfaces returned
    mesh,        \* the mesh createMesh returned
    exportOutcome, \* what write_triangle_mesh did
    objFile,     \* the exported file on disk
    steps,       \* the operations of the pipeline executed so far
    logged,      \* the errors written to the error log
    exc          \* the exception that left __init__, if any

vars == <<inputFile, file, pc, inputData, scene, c, readExc, marching,
          isosurface, mesh, exportOutcome, objFile, steps, logged, exc>>

\* the exported file: whether it exists, how it was written, what it holds
NoObjFile == [exists |-> FALSE, ascii |-> FALSE, mesh |-> NoMesh]

NewScene == [light |-> <<>>, camera |-> <<>>, obj |-> FALSE,
             atoms |-> <<>>, drawn |-> FALSE, bondsDict |-> <<>>,
             bonds |-> {}, bonded |-> FALSE]

NoSurface == [verts |-> <<>>, faces |-> <<>>]

\* RenderCubeFile(pathToCubeFile, pathToInputFile): every cube file without
\* an input file, and every input file with one cube file; no file of an
\* earlier run exists at pathToOBJFile
Init ==
    /\ \/ inputFile = NoInputFile /\ file \in CubeFiles \cup {Missing, Unreadable}
       \/ inputFile \in InputFiles /\ file = SampleCubeFile
    /\ pc = "getInputData"
    /\ inputData = EmptyDict
    /\ isosurface = NoSurface
    /\ exportOutcome = Unset
    /\ scene = NewScene
    /\ c = NewCubeFile
    /\ readExc = Unset
    /\ marching = Unset
    /\ mesh = NoMesh
    /\ objFile = NoObjFile
    /\ steps = {}
    /\ logged = {}
    /\ exc = NoExc

\* self.inputData = self._getInputData(pathToInputFile); an exception of
\* readInputFile leaves __init__
GetInputData ==
    /\ pc = "getInputData"
    /\ LET r == _getInputData(inputFile) IN
         /\ inputData' = IF r.exc = NoExc THEN r.data ELSE inputData
         /\ exc' = r.exc
         /\ logged' = logged \cup (IF r.logged # "" THEN {r.logged} ELSE {})
         /\ pc' = IF r.exc = NoExc THEN "createScene" ELSE "done"
    /\ steps' = steps \cup {"getInputData"}
    /\ UNCHANGED <<inputFile, file, scene, c, readExc, marching, isosurface,
                   mesh, exportOutcome, objFile>>

\* _createScene: _createLight, then _createCamera; a location none of the
\* branches of their if/elif chains takes leaves the coordinates unassigned
CreateScene ==
    /\ pc = "createScene"
    /\ IF inputData.cameraLocation.str \in DOMAIN lightLocationCoordinates
         THEN /\ scene' = [scene EXCEPT
                    !.light = lightLocationCoordinates[inputData.cameraLocation.str],
                    !.camera = cameraLocationCoordinates[inputData.cameraLocation.str]]
              /\ pc' = "enter"
              /\ exc' = exc
         ELSE /\ scene' = scene
              /\ pc' = "done"
              /\ exc' = "UnboundLocalError"
    /\ steps' = steps \cup {"createScene"}
    /\ UNCHANGED <<inputFile, file, inputData, c, readExc, marching, isosurface,
                   mesh, exportOutcome, objFile, logged>>

\* with CubeFile(pathToCubeFile) as c: an exception of __enter__ leaves
\* __init__ without __exit__ being called
Enter ==
    /\ pc = "enter"
    /\ LET r == __enter__(c, file) IN
         /\ c' = r.self
         /\ exc' = r.exc
         /\ readExc' = IF r.exc # NoExc THEN r.exc ELSE r.caught
         /\ logged' = logged \cup (IF r.caught # NoExc THEN {"read"} ELSE {})
                             \cup (IF r.logged > 0 THEN {"float"} ELSE {})
         /\ pc' = IF r.exc # NoExc THEN "done" ELSE "createMesh"
    /\ steps' = steps \cup {"enter"}
    /\ UNCHANGED <<inputFile, file, inputData, scene, marching, isosurface,
                   mesh, exportOutcome, objFile>>

\* what measure.marching_cubes does in the model: it raises, or it returns
\* one triangle
MarchingRaises == [raises |-> TRUE, verts |-> <<>>, faces |-> <<>>]
Surfaces ==
    { [raises |-> FALSE,
       verts |-> <<<<0, 0, 0>>, <<3, 0, 0>>, <<0, 3, 0>>>>,
       faces |-> <<<<0, 1, 2>>>>] }

\* what the open3d calls of _createMeshFromVerticesAndFaces can do
Open3dFaults == {"none", "vertices", "triangles", "filter"}

\* c.createMesh(isosurfaceValue, filterIterations)
CreateMesh ==
    /\ pc = "createMesh"
    /\ \E mc \in {MarchingRaises} \cup
                 (IF MarchingCubesDefined(c, inputData.isosurfaceValue.num)
                    THEN Surfaces ELSE {}),
          o3d \in Open3dFaults :
         LET r == createMesh(c, inputData.isosurfaceValue.num,
                             inputData.filterIterations.num, mc, o3d) IN
           /\ marching' = IF mc.raises THEN "raise" ELSE "ok"
           /\ isosurface' = [verts |-> _calculateIsosurfaces(c, mc).verts,
                             faces |-> _calculateIsosurfaces(c, mc).faces]
           /\ mesh' = r.mesh
           /\ exc' = r.exc
           /\ logged' = logged \cup r.logged
           /\ pc' = IF r.exc # NoExc THEN "exit" ELSE "export"
    /\ steps' = steps \cup {"createMesh"}
    /\ UNCHANGED <<inputFile, file, inputData, scene, c, readExc, exportOutcome,
                   objFile>>

\* exportCubeFileIsosurfaceToFile: write_triangle_mesh writes the file,
\* returns False without writing, or raises; an exception is logged and
\* dropped, the returned value is not looked at
Export ==
    /\ pc = "export"
    /\ \E out \in {"written", "refused", "raise"} :
         /\ exportOutcome' = out
         /\ objFile' = IF out = "written"
                         THEN [exists |-> TRUE, ascii |-> TRUE, mesh |-> mesh]
                         ELSE objFile
         /\ logged' = IF out = "raise" THEN logged \cup {"write"} ELSE logged
    /\ pc' = "drawOBJ"
    /\ steps' = steps \cup {"export"}
    /\ UNCHANGED <<inputFile, file, inputData, scene, c, readExc, marching,
                   isosurface, mesh, exc>>

\* _drawOBJStructure: the import of the host raises when it cannot read
\* the file, and the first selected object is missing when it read nothing
DrawOBJ ==
    /\ pc = "drawOBJ"
    /\ \E ok \in (IF objFile.exists THEN {TRUE, FALSE} ELSE {FALSE}) :
         IF ok
           THEN /\ scene' = [scene EXCEPT !.obj = TRUE]
                /\ exc' = exc
                /\ pc' = "remove"
           ELSE /\ scene' = scene
                /\ exc' = "RuntimeError"
                /\ pc' = "exit"
    /\ steps' = steps \cup {"drawOBJ"}
    /\ UNCHANGED <<inputFile, file, inputData, c, readExc, marching, isosurface,
                   mesh, exportOutcome, objFile, logged>>

\* if inputData['deleteOBJFile']: os.remove(...)
RemoveOBJ ==
    /\ pc = "remove"
    /\ IF ~inputData.deleteOBJFile.bool
         THEN /\ objFile' = objFile /\ exc' = exc /\ pc' = "drawAtoms"
         ELSE IF ~objFile.exists
           THEN /\ objFile' = objFile /\ exc' = "FileNotFoundError" /\ pc' = "exit"
           ELSE /\ objFile' = NoObjFile /\ exc' = exc /\ pc' = "drawAtoms"
    /\ steps' = steps \cup {"remove"}
    /\ UNCHANGED <<inputFile, file, inputData, scene, c, readExc, marching,
                   isosurface, mesh, exportOutcome, logged>>

\* the sequences that list every element of S once
Orders(S) ==
    {q \in [1..Cardinality(S) -> S] : \A x \in S : \E k \in DOMAIN q : q[k] = x}

RECURSIVE OrdersFrom(_, _, _)
\* for the atoms i, ..., n - 1: an order of iteration of the neighbours
\* each has in the bonds E
OrdersFrom(i, n, E) ==
    IF i >= n THEN {<<>>}
    ELSE {<<o>> \o rest :
            o \in Orders({j \in 0..(n - 1) : {i, j} \in E}),
            rest \in OrdersFrom(i + 1, n, E)}

\* what molecule.get_bonds() returns for n atoms: each bond listed at both
\* of its atoms, each neighbour set with an order of iteration
BondsDicts(n) ==
    UNION {OrdersFrom(0, n, E) :
             E \in SUBSET {e \in SUBSET (0..(n - 1)) : Cardinality(e) = 2}}

\* the threshold of _drawAtomsAndBonds set to two atoms
EnoughAtomsForBondsTwo(atomNames) == Len(atomNames) >= 2

\* if len (atomNames) >= 3
EnoughAtomsForBonds(atomNames) == Len(atomNames) >= 3

\* _drawAtomsAndBonds(c.coordinatesOfAtoms, c.nameOfAtoms, c.unit):
\* _drawAtoms, then _calculateBonds and _drawBonds for three atoms or more
DrawAtomsAndBonds ==
    /\ pc = "drawAtoms"
    /\ IF ~HasAttr(c, "coordinatesOfAtoms")
         THEN /\ scene' = scene
              /\ exc' = "AttributeError"
         ELSE /\ exc' = exc
              /\ IF EnoughAtomsForBonds(c.nameOfAtoms)
                   THEN \E bondsDict \in BondsDicts(Len(c.nameOfAtoms)) :
                          scene' = [scene EXCEPT !.atoms = c.nameOfAtoms,
                                                 !.drawn = TRUE,
                                                 !.bondsDict = bondsDict,
                                                 !.bonds = _calculateBonds(bondsDict),
                                                 !.bonded = TRUE]
                   ELSE scene' = [scene EXCEPT !.atoms = c.nameOfAtoms,
                                               !.drawn = TRUE]
    /\ pc' = "exit"
    /\ steps' = steps \cup {"drawAtoms"}
    /\ UNCHANGED <<inputFile, file, inputData, c, readExc, marching, isosurface,
                   mesh, exportOutcome, objFile, logged>>

\* CubeFile.__exit__: "del self" unbinds the local name and nothing else
Exit ==
    /\ pc = "exit"
    /\ pc' = "done"
    /\ steps' = steps \cup {"exit"}
    /\ UNCHANGED <<inputFile, file, inputData, scene, c, readExc, marching,
                   isosurface, mesh, exportOutcome, objFile, logged, exc>>

Next ==
    \/ GetInputData
    \/ CreateScene
    \/ Enter
    \/ CreateMesh
    \/ Export
    \/ DrawOBJ
    \/ RemoveOBJ
    \/ DrawAtomsAndBonds
    \/ Exit

Spec == Init /\ [][Next]_vars

----------------------------------------------------------------------------
(* Properties of the cube file reader *)

\* __enter__ has returned or raised
Entered == "enter" \in steps
\* the read ended without an exception, caught or not
ParsedOK == Entered /\ readExc = NoExc
\* the voxel count that header line d (1 = X, 2 = Y, 3 = Z) of the file gives
HeaderCount(d) == file.lines[HeaderStart + d][1].val
\* the payload tokens of the file, in reading order
Tokens == Payload(c, file.lines)
\* the number of elements of the field
FieldSize == Cardinality(DOMAIN c.data)

\* C1: once the unit is resolved, a negative voxel count on any axis gives
\* unit Angstrom and the absolute values of the three counts, and no
\* negative count gives unit Bohr and the counts of the header.
C1_UnitFromAnyAxis ==
    HasAttr(c, "unit") =>
        IF HeaderCount(1) < 0 \/ HeaderCount(2) < 0 \/ HeaderCount(3) < 0
          THEN /\ c.unit = "Angstrom"
               /\ c.numberOfVoxelsX = Abs(HeaderCount(1))
               /\ c.numberOfVoxelsY = Abs(HeaderCount(2))
               /\ c.numberOfVoxelsZ = Abs(HeaderCount(3))
          ELSE /\ c.unit = "Bohr"
               /\ c.numberOfVoxelsX = HeaderCount(1)
               /\ c.numberOfVoxelsY = HeaderCount(2)
               /\ c.numberOfVoxelsZ = HeaderCount(3)

\* C2: in a parsed field, a payload token without exponent marker ("E" or
\* "e") is stored as 0 and a token with a marker that is a number is stored
\* as its value.
C2_ZeroExactlyWithoutMarker ==
    ParsedOK =>
        \A k \in 0..(Len(Tokens) - 1) : k < FieldSize =>
            LET t == Tokens[k + 1]
                stored == c.data[CHOOSE ix \in DOMAIN c.data :
                              FlatIndex(ix[1], ix[2], ix[3], c.numberOfVoxelsY,
                                        c.numberOfVoxelsZ) = k]
            IN  /\ (~t.E /\ ~t.e) => stored = 0
                /\ ((t.E \/ t.e) /\ t.float) => stored = t.val

\* C3: when a payload token with a marker is no floating-point number, the
\* read ends with an exception that leaves __enter__.
C3_UnparsableTokenFails ==
    (Entered /\ HasAttr(c, "data")
       /\ \E k \in 1..Len(Tokens) : Tokens[k].E /\ ~Tokens[k].float)
      => exc # NoExc

\* a header line with fewer fields than an integer and three floats, or
\* with a leading token that is no integer
MalformedHeaderLine(l) == Len(l) < 4 \/ ~l[1].int

\* C4: a cube file with a malformed header line is never parsed
\* successfully: the read ends with an exception that leaves __enter__.
C4_MalformedHeaderFails ==
    (Entered /\ file.state = "readable"
       /\ \E d \in 0..3 : MalformedHeaderLine(readline(file.lines, HeaderStart + d)))
      => exc # NoExc

\* C5: after a failed read (the file cannot be opened or read, or it is
\* malformed) no isosurface extraction, export or OBJ import is executed.
C5_FailedReadAborts ==
    (Entered /\ readExc # NoExc)
      => steps \cap {"createMesh", "export", "drawOBJ"} = {}

\* C6: once __enter__ has returned or raised, the CubeFile object holds no
\* open file handle.
C6_HandleReleased ==
    Entered => ~(HasAttr(c, "cubeFile") /\ c.cubeFile = "open")

\* C7: a successfully parsed grid has strictly positive voxel counts and a
\* field of exactly numberOfVoxelsX * numberOfVoxelsY * numberOfVoxelsZ
\* values.
C7_PositiveCountsAndSize ==
    ParsedOK =>
        /\ c.numberOfVoxelsX > 0 /\ c.numberOfVoxelsY > 0 /\ c.numberOfVoxelsZ > 0
        /\ FieldSize = c.numberOfVoxelsX * c.numberOfVoxelsY * c.numberOfVoxelsZ

\* C8: after the atom lines are read, the i-th stored name is the complete
\* symbol that elementNumToString gives for the atomic number of the i-th
\* atom line.
C8_CompleteSymbols ==
    HasAttr(c, "unit") =>
        \A i \in 1..c.numberOfAtoms :
            LET n == file.lines[AtomStart + i - 1][1].val IN
              n \in 0..96 => c.nameOfAtoms[i] = elementNumToString[n]

\* the value the read stores for a payload token
StoredValue(t) == IF t.E /\ t.float THEN t.val ELSE 0

\* C9: a parsed field has shape (nx, ny, nz), and payload token k (from 0)
\* is found at index [k div (ny*nz), (k div nz) mod ny, k mod nz].
C9_RowMajorLayout ==
    ParsedOK =>
        LET nx == c.numberOfVoxelsX
            ny == c.numberOfVoxelsY
            nz == c.numberOfVoxelsZ
        IN  /\ DOMAIN c.data = (0..(nx - 1)) \X (0..(ny - 1)) \X (0..(nz - 1))
            /\ \A k \in 0..(Len(Tokens) - 1) : k < nx * ny * nz =>
                 c.data[<<k \div (ny * nz), (k \div nz) % ny, k % nz>>]
                   = StoredValue(Tokens[k + 1])

\* a 2x2x2 field read from 8 tokens: the last token is at [1, 1, 1] and the
\* second at [0, 0, 1]
C9_Witness ==
    /\ ParsedOK
    /\ c.numberOfVoxelsX = 2 /\ c.numberOfVoxelsY = 2 /\ c.numberOfVoxelsZ = 2
    /\ Len(Tokens) = 8
    /\ c.data[<<1, 1, 1>>] = 8 /\ c.data[<<0, 0, 1>>] = 2 /\ c.data[<<0, 1, 0>>] = 3

\* C10: when the extraction raises, createMesh returns a mesh without
\* vertices and faces, raises nothing, and the pipeline goes on to the
\* export.
C10_FailedExtractionGivesEmptyMesh ==
    marching = "raise" =>
        /\ mesh.vertices = <<>> /\ mesh.triangles = <<>>
        /\ "isosurface" \in logged
        /\ pc = "export" \/ "export" \in steps
        /\ pc = "export" => exc = NoExc

\* the extraction failed on a parsed field whose values do not reach the
\* level, and the export has run on the empty mesh
C10_Witness ==
    /\ marching = "raise"
    /\ ParsedOK
    /\ ~MarchingCubesDefined(c, inputData.isosurfaceValue.num)
    /\ c.numberOfVoxelsX >= 2 /\ c.numberOfVoxelsY >= 2 /\ c.numberOfVoxelsZ >= 2
    /\ "export" \in steps
    /\ mesh = NoMesh

----------------------------------------------------------------------------
(* Properties of createMesh and of the export *)

\* createMesh has returned a mesh and no open3d call of it has failed
MeshMade == "createMesh" \in steps /\ pc # "createMesh" /\ "mesh" \notin logged
\* the mesh of the vertices and faces _calculateIsosurfaces returned
ExtractedMesh == [vertices |-> isosurface.verts, triangles |-> isosurface.faces]

\* C11: the mesh createMesh returns is the extracted mesh with its vertices
\* smoothed filterIterations times and its triangles unchanged.
C11_ReturnedMeshIsSmoothed ==
    MeshMade =>
        /\ mesh.vertices =
             filter_smooth_simple(ExtractedMesh, inputData.filterIterations.num).vertices
        /\ mesh.triangles = isosurface.faces

\* C12: with filterIterations = 0 the mesh createMesh returns has the
\* vertices and the faces that _calculateIsosurfaces returned.
C12_NoSmoothingKeepsExtractedMesh ==
    (MeshMade /\ inputData.filterIterations.num = 0) => mesh = ExtractedMesh

\* a surface was extracted and made a mesh without smoothing
C12_Witness ==
    /\ MeshMade /\ inputData.filterIterations.num = 0
    /\ marching = "ok" /\ Len(mesh.vertices) = 3 /\ mesh.triangles # <<>>
    /\ mesh.vertices # SmoothOnce(mesh.vertices, mesh.triangles)

\* C13: when exportCubeFileIsosurfaceToFile has returned, no exception has
\* left it, a write that did not succeed has been written to the error log,
\* and a write that succeeded has left a file written in ASCII mode.
C13_ExportFailureIsReported ==
    pc = "drawOBJ" =>
        /\ exc = NoExc
        /\ exportOutcome # "written" => "write" \in logged
        /\ exportOutcome = "written" => objFile.exists /\ objFile.ascii

----------------------------------------------------------------------------
(* Properties of _drawAtomsAndBonds *)

\* atom j is listed among the neighbours of atom i
Listed(i, j) ==
    \E k \in DOMAIN scene.bondsDict[i + 1] : scene.bondsDict[i + 1][k] = j

\* C14: the set _calculateBonds builds from an adjacency that lists each
\* bond at both of its atoms holds every bonded pair in exactly one of its
\* two directions and holds nothing else, whatever the order of iteration.
C14_EveryBondOnce ==
    scene.bonded =>
        /\ \A i, j \in 0..(Len(scene.bondsDict) - 1) :
              Listed(i, j) => (<<i, j>> \in scene.bonds) # (<<j, i>> \in scene.bonds)
        /\ \A b \in scene.bonds : Listed(b[1], b[2])

\* three bonds, with a neighbour set iterated in descending order
C14_Witness ==
    /\ scene.bonded
    /\ Cardinality(scene.bonds) = 3
    /\ \E i \in DOMAIN scene.bondsDict :
          /\ Len(scene.bondsDict[i]) = 2
          /\ scene.bondsDict[i][1] > scene.bondsDict[i][2]

\* C15: when _drawAtomsAndBonds has run, the atoms are drawn, and the bonds
\* are computed and drawn exactly when there are three atoms or more.
C15_BondsFromThreeAtoms ==
    ("drawAtoms" \in steps /\ HasAttr(c, "coordinatesOfAtoms")) =>
        /\ scene.drawn /\ scene.atoms = c.nameOfAtoms
        /\ scene.bonded <=> Len(c.nameOfAtoms) >= 3

\* two atoms drawn and no bond computed
C15_Witness ==
    /\ "drawAtoms" \in steps /\ scene.drawn
    /\ Len(c.nameOfAtoms) = 2 /\ ~scene.bonded

----------------------------------------------------------------------------
(* Properties of the input file *)

\* _getInputData has returned a configuration
ConfigObtained ==
    "getInputData" \in steps /\ ~(pc = "done" /\ steps = {"getInputData"})
\* readInputFile has returned the dictionary of a JSON object
InputRead == ConfigObtained /\ inputFile.state = "object"

\* the messages _validateData and _validatePath log for a keyword
Messages(key) ==
    CASE key = "filterIterations" -> {"type: filterIterations", "range: filterIterations"}
      [] key = "isosurfaceValue" -> {"type: isosurfaceValue"}
      [] key = "deleteOBJFile" -> {"type: deleteOBJFile"}
      [] key = "pathToOBJFile" -> {"type: pathToOBJFile", "path: pathToOBJFile"}
      [] key = "focalLenght" -> {"type: focalLenght", "range: focalLenght"}
      [] key = "cameraLocation" -> {"type: cameraLocation", "value: cameraLocation"}
      [] key = "imagePath" -> {"type: imagePath", "path: imagePath"}
\* the validation has rejected the value of the keyword
RejectedFor(key) == logged \cap Messages(key) # {}
\* the validation has looked at the value the file gives the keyword: the
\* file holds it and no keyword before it was rejected
Validated(key) ==
    /\ "getInputData" \in steps
    /\ inputFile.state = "object"
    /\ key \in DOMAIN inputFile.content
    /\ \A i \in DOMAIN defaultKeys :
          i < (CHOOSE k \in DOMAIN defaultKeys : defaultKeys[k] = key)
            => ~RejectedFor(defaultKeys[i])

\* C16: the dictionary readInputFile returns for a JSON object has exactly
\* the seven keywords of defaultValues, each with the value of the file when
\* the file holds it and with the default otherwise; other keywords of the
\* file are dropped.
C16_ExactlyTheSevenKeys ==
    InputRead =>
        /\ DOMAIN inputData = DOMAIN defaultValues
        /\ Cardinality(DOMAIN inputData) = 7
        /\ \A key \in DOMAIN defaultValues :
              inputData[key] = IF key \in DOMAIN inputFile.content
                                 THEN inputFile.content[key]
                                 ELSE defaultValues[key]

\* a file with a keyword the program knows, without another one it knows,
\* and with one it does not know
C16_Witness ==
    /\ InputRead
    /\ "filterIterations" \in DOMAIN inputFile.content
    /\ "focalLenght" \notin DOMAIN inputFile.content
    /\ "comment" \in DOMAIN inputFile.content

\* C17: filterIterations of the input file is rejected with ValueError
\* exactly when it is not of type int or is negative, and the count
\* createMesh gets is a non-negative int.
C17_OnlyNonNegativeIntegerCounts ==
    /\ Validated("filterIterations") =>
          /\ RejectedFor("filterIterations") <=>
                ~(/\ inputFile.content.filterIterations.type = "int"
                  /\ inputFile.content.filterIterations.num >= 0)
          /\ RejectedFor("filterIterations") => exc = "ValueError" /\ pc = "done"
    /\ "createMesh" \in steps =>
          /\ inputData.filterIterations.type = "int"
          /\ inputData.filterIterations.num >= 0

\* the count False is rejected
C17_Witness ==
    /\ Validated("filterIterations")
    /\ inputFile.content.filterIterations = JBool(FALSE)
    /\ exc = "ValueError" /\ pc = "done"

\* C18 as stated: every number the input file gives as isosurfaceValue is
\* accepted.
C18_EveryNumberAccepted ==
    (/\ Validated("isosurfaceValue")
     /\ inputFile.content.isosurfaceValue.type \in {"int", "float"})
      => ~RejectedFor("isosurfaceValue")

\* C18: isosurfaceValue of the input file is rejected with ValueError
\* exactly when it is not of type float, whatever its sign and magnitude; a
\* number of type int is rejected.
C18_FloatTypeOnly ==
    Validated("isosurfaceValue") =>
        /\ RejectedFor("isosurfaceValue") <=>
              inputFile.content.isosurfaceValue.type # "float"
        /\ RejectedFor("isosurfaceValue") => exc = "ValueError" /\ pc = "done"

\* a negative float is accepted and used as the level
C18_Witness ==
    /\ Validated("isosurfaceValue")
    /\ inputFile.content.isosurfaceValue = JFloat(-5)
    /\ "createMesh" \in steps

\* the directory that would contain the path: the current directory for a
\* bare file name
ContainingDirectory(path) ==
    IF os_path_dirname(path) = "" THEN "." ELSE os_path_dirname(path)

PathKeys == {"pathToOBJFile", "imagePath"}

\* C19 as stated: a path of the input file is rejected exactly when neither
\* the path nor the directory that would contain it exists.
C19_RejectedWithoutContainingDirectory ==
    \A key \in PathKeys :
        (Validated(key) /\ inputFile.content[key].type = "str") =>
            (RejectedFor(key) <=>
                /\ ~os_path_exists(inputFile.content[key].str)
                /\ ~os_path_exists(ContainingDirectory(inputFile.content[key].str)))

\* C19: a path of the input file is rejected with OSError exactly when
\* neither the path nor os.path.dirname of it exists; a bare file name that
\* does not exist is rejected, the same name after "./" is accepted.
C19_RejectedWithoutDirname ==
    \A key \in PathKeys :
        (Validated(key) /\ inputFile.content[key].type = "str") =>
            /\ RejectedFor(key) <=>
                  /\ ~os_path_exists(inputFile.content[key].str)
                  /\ ~os_path_exists(os_path_dirname(inputFile.content[key].str))
            /\ RejectedFor(key) => exc = "OSError" /\ pc = "done"
            /\ inputFile.content[key].str \in {"out", "null"} => RejectedFor(key)
            /\ inputFile.content[key].str = "./out" => ~RejectedFor(key)

\* the bare file name "out" is rejected as the path of the OBJ file
C19_Witness ==
    /\ Validated("pathToOBJFile")
    /\ inputFile.content.pathToOBJFile = JStr("out")
    /\ exc = "OSError" /\ pc = "done"

\* C20: the cameraLocation of every configuration _getInputData returns is
\* one of "-x", "+x", "-y", "+y", "-z", "+z", so _createLight and
\* _createCamera assign their coordinates and never fail on an unassigned
\* name.
C20_CameraLocationKnown ==
    /\ ConfigObtained =>
          /\ inputData.cameraLocation.type = "str"
          /\ inputData.cameraLocation.str \in {"-x", "+x", "-y", "+y", "-z", "+z"}
    /\ exc # "UnboundLocalError"
    /\ "createScene" \in steps =>
          /\ scene.light = lightLocationCoordinates[inputData.cameraLocation.str]
          /\ scene.camera = cameraLocationCoordinates[inputData.cameraLocation.str]

\* an input file sets the camera to "+x" and the scene has it there
C20_Witness ==
    /\ InputRead /\ "createScene" \in steps
    /\ "cameraLocation" \in DOMAIN inputFile.content
    /\ inputFile.content.cameraLocation = JStr("+x")
    /\ scene.camera = <<70, 0, 0>>

====
